---- MODULE Spec2Model ----
(***************************************************************************)
(* Model of the fathom-mcp meeting tools: the cursor pagination loop of    *)
(* fetchAllMeetings and the search_meetings handler (keyword / date        *)
(* filter, projection, tool result).                                       *)
(***************************************************************************)
EXTENDS Integers, Sequences, FiniteSets, TLC

(***************************************************************************)
(* Bounds of the model.                                                    *)
(***************************************************************************)
\* invocation slots of the host
MaxInv == 2
\* records one aggregation run may accumulate
MaxItems == 3
\* records one upstream page may carry
MaxPageLen == 2
\* records of an aggregated collection handed to the filter directly
MaxColl == 2
\* segments of one upstream transcript
MaxSegments == 2

Invs == 1..MaxInv
\* the host that issues one tool call after the other uses the first slot
SeqInvs == {1}

(***************************************************************************)
(* JavaScript values: strings are sequences of characters, optional        *)
(* fields are tagged.                                                      *)
(***************************************************************************)
Str(s) == [t |-> "string", v |-> s]
Null == [t |-> "null", v |-> <<>>]
Undefined == [t |-> "undefined", v |-> <<>>]

\* !!x for the values a cursor can take
Truthy(x) == x.t = "string" /\ x.v # <<>>

UpperCase ==
  <<"A","B","C","D","E","F","G","H","I","J","K","L","M",
    "N","O","P","Q","R","S","T","U","V","W","X","Y","Z">>
LowerCase ==
  <<"a","b","c","d","e","f","g","h","i","j","k","l","m",
    "n","o","p","q","r","s","t","u","v","w","x","y","z">>

ToLowerChar(c) ==
  IF \E k \in 1..Len(UpperCase) : UpperCase[k] = c
  THEN LowerCase[CHOOSE k \in 1..Len(UpperCase) : UpperCase[k] = c]
  ELSE c

\* String.prototype.toLowerCase
ToLowerCase(s) == [k \in 1..Len(s) |-> ToLowerChar(s[k])]

\* String.prototype.includes
Includes(hay, needle) ==
  \E k \in 0..(Len(hay) - Len(needle)) :
     SubSeq(hay, k + 1, k + Len(needle)) = needle

\* x?.toLowerCase().includes(kw): undefined (falsy) when x is null/undefined
OptLowerIncludes(x, kw) ==
  IF x.t = "string" THEN Includes(ToLowerCase(x.v), kw) ELSE FALSE

(***************************************************************************)
(* Dates: milliseconds since 2024-01-01T00:00:00.000Z.                     *)
(***************************************************************************)
MinuteMs == 60 * 1000
HourMs == 60 * MinuteMs
DayMs == 24 * HourMs

Date(ms) == [t |-> "date", v |-> ms]
InvalidDate == [t |-> "invalid", v |-> 0]
NoDate == [t |-> "undefined", v |-> 0]

\* a date argument: absent, "", "YYYY-MM-DD" or text Date cannot parse
NoArg == [t |-> "undefined", form |-> "none", day |-> 0]
EmptyArg == [t |-> "string", form |-> "empty", day |-> 0]
IsoDay(d) == [t |-> "string", form |-> "iso-date", day |-> d]
BadDate == [t |-> "string", form |-> "invalid", day |-> 0]

\* truthiness of a string argument
Supplied(s) == s.t = "string" /\ s.form # "empty"

\* new Date(string): a date-only ISO string is UTC midnight of that day
NewDate(s) ==
  IF s.form = "iso-date" THEN Date(s.day * DayMs) ELSE InvalidDate

\* Date.prototype.setHours(h, m, s, ms): local time of the process
SetHours(d, h, m, s, ms, tz) ==
  IF d.t # "date" THEN InvalidDate
  ELSE LET local == d.v + tz
           midnight == (local \div DayMs) * DayMs
       IN Date(midnight + h * HourMs + m * MinuteMs + s * 1000 + ms - tz)

\* a >= b on Date objects: valueOf of both, NaN compares false
DateGE(a, b) == a.t = "date" /\ b.t = "date" /\ a.v >= b.v
DateLE(a, b) == a.t = "date" /\ b.t = "date" /\ a.v <= b.v

(***************************************************************************)
(* Meeting records as the upstream SDK hands them over.                    *)
(***************************************************************************)
Invitees(s) == [t |-> "array", v |-> s]
NoInvitees == [t |-> "undefined", v |-> <<>>]

Meeting(id, title, meetingTitle, start, end, invitees) ==
  [recordingId |-> id, title |-> title, meetingTitle |-> meetingTitle,
   scheduledStartTime |-> start, scheduledEndTime |-> end,
   url |-> "url", shareUrl |-> "share", calendarInvitees |-> invitees]

\* "Standup", invitee named "Jo", 2024-01-02 10:00Z, 30 minutes
Standup ==
  Meeting(1, Str(<<"S","t","a","n","d","u","p">>), Undefined,
          Date(DayMs + 10 * HourMs), Date(DayMs + 10 * HourMs + 30 * MinuteMs),
          Invitees(<<[name |-> Str(<<"J","o">>), email |-> Undefined]>>))

\* "Planning", invitee sam@x.com, 2024-01-10 09:00Z, 44.5 minutes
Planning ==
  Meeting(2, Str(<<"P","l","a","n","n","i","n","g">>), Undefined,
          Date(9 * DayMs + 9 * HourMs),
          Date(9 * DayMs + 9 * HourMs + 44 * MinuteMs + 30 * 1000),
          Invitees(<<[name |-> Null,
                      email |-> Str(<<"s","a","m","@","x",".","c","o","m">>)]>>))

\* no title, display title "SYNC", two invitees, 2024-01-04 00:00Z
Sync ==
  Meeting(3, Null, Str(<<"S","Y","N","C">>),
          Date(3 * DayMs), Date(3 * DayMs + HourMs),
          Invitees(<<[name |-> Str(<<"A","l">>), email |-> Undefined],
                     [name |-> Str(<<"S","a","m">>), email |-> Str(<<"s","@","y">>)]>>))

\* no text field at all, no invitee list, no timestamps
Bare ==
  Meeting(4, Undefined, Undefined, NoDate, NoDate, NoInvitees)

\* empty title and an empty invitee list, 2024-01-05 23:30Z
Blank ==
  Meeting(5, Str(<<>>), Undefined,
          Date(4 * DayMs + 23 * HourMs + 30 * MinuteMs),
          Date(4 * DayMs + 23 * HourMs + 50 * MinuteMs),
          Invitees(<<>>))

\* titled "Standup" like the first record, but without timestamps
Untimed ==
  Meeting(6, Str(<<"S","t","a","n","d","u","p">>), Undefined, NoDate, NoDate,
          Invitees(<<>>))

\* records the filter is exercised on
Catalogue == {Standup, Planning, Sync, Bare, Blank, Untimed}
\* records the upstream pages of the pagination runs carry
UpstreamRecords == {Standup, Planning}

\* sequences over S of length 0..n
RECURSIVE SeqsUpTo(_, _)
SeqsUpTo(S, n) ==
  IF n = 0 THEN {<<>>}
  ELSE LET shorter == SeqsUpTo(S, n - 1)
       IN shorter \cup {Append(q, x) : q \in {r \in shorter : Len(r) = n - 1}, x \in S}

(***************************************************************************)
(* Arguments of search_meetings.                                           *)
(***************************************************************************)
KwList(s) == [t |-> "array", v |-> s]
NoKwList == [t |-> "undefined", v |-> <<>>]

SearchArgs(pk, tk, sd, ed) ==
  [participantKeywords |-> pk, titleKeywords |-> tk, startDate |-> sd, endDate |-> ed]

\* x || []
OrEmpty(x) == IF x.t = "array" THEN x.v ELSE <<>>

(***************************************************************************)
(* search_meetings: the filter predicate.                                  *)
(***************************************************************************)
\* allKeywords = [...(participantKeywords || []), ...(titleKeywords || [])]
AllKeywords(args) == OrEmpty(args.participantKeywords) \o OrEmpty(args.titleKeywords)

\* meeting.calendarInvitees?.some(name or email includes the keyword)
FoundInParticipants(meeting, keywordLower) ==
  IF meeting.calendarInvitees.t = "array"
  THEN \E j \in 1..Len(meeting.calendarInvitees.v) :
          \/ OptLowerIncludes(meeting.calendarInvitees.v[j].name, keywordLower)
          \/ OptLowerIncludes(meeting.calendarInvitees.v[j].email, keywordLower)
  ELSE FALSE

FoundInTitle(meeting, keywordLower) ==
  \/ OptLowerIncludes(meeting.title, keywordLower)
  \/ OptLowerIncludes(meeting.meetingTitle, keywordLower)

\* the callback of allKeywords.some
KeywordFound(meeting, keyword) ==
  LET keywordLower == ToLowerCase(keyword)
  IN FoundInParticipants(meeting, keywordLower) \/ FoundInTitle(meeting, keywordLower)

\* variant: participant keywords are looked up in the invitees only, title
\* keywords in the two titles only
KeywordMatchPerList(meeting, args) ==
  LET pk == OrEmpty(args.participantKeywords)
      tk == OrEmpty(args.titleKeywords)
  IN IF Len(pk) + Len(tk) > 0
     THEN \/ \E k \in 1..Len(pk) : FoundInParticipants(meeting, ToLowerCase(pk[k]))
          \/ \E k \in 1..Len(tk) : FoundInTitle(meeting, ToLowerCase(tk[k]))
     ELSE TRUE

\* variant: the test for an empty keyword list is missing
KeywordMatchUnguarded(meeting, args) ==
  \E k \in 1..Len(AllKeywords(args)) : KeywordFound(meeting, AllKeywords(args)[k])

KeywordMatch(meeting, args) ==
  LET allKeywords == AllKeywords(args)
  IN IF Len(allKeywords) > 0
     THEN \E k \in 1..Len(allKeywords) : KeywordFound(meeting, allKeywords[k])
     ELSE TRUE

StartBound(args, tz) == SetHours(NewDate(args.startDate), 0, 0, 0, 0, tz)
EndBound(args, tz) == SetHours(NewDate(args.endDate), 23, 59, 59, 999, tz)

\* variant: a record without a start time passes the date criterion
DateMatchSkipMissing(meeting, args, tz) ==
  \/ meeting.scheduledStartTime.t # "date"
  \/ /\ Supplied(args.startDate) =>
           DateGE(meeting.scheduledStartTime, StartBound(args, tz))
     /\ Supplied(args.endDate) =>
           DateLE(meeting.scheduledStartTime, EndBound(args, tz))

DateMatch(meeting, args, tz) ==
  IF Supplied(args.startDate) \/ Supplied(args.endDate)
  THEN LET meetingDate == meeting.scheduledStartTime
           afterStart == IF Supplied(args.startDate)
                         THEN DateGE(meetingDate, StartBound(args, tz))
                         ELSE TRUE
           beforeEnd == IF Supplied(args.endDate)
                        THEN DateLE(meetingDate, EndBound(args, tz))
                        ELSE TRUE
       IN afterStart /\ beforeEnd
  ELSE TRUE

\* variant: either criterion is enough
FilterPredicateEither(meeting, args, tz) ==
  KeywordMatch(meeting, args) \/ DateMatch(meeting, args, tz)

\* return keywordMatch && dateMatch
FilterPredicate(meeting, args, tz) ==
  KeywordMatch(meeting, args) /\ DateMatch(meeting, args, tz)

\* allMeetings.filter(...)
FilterMeetings(allMeetings, args, tz) ==
  LET Keep(meeting) == FilterPredicate(meeting, args, tz)
  IN SelectSeq(allMeetings, Keep)

(***************************************************************************)
(* search_meetings: projection and tool result.                            *)
(***************************************************************************)
\* d?.toLocaleDateString(undefined, {year, month, day, hour, minute}):
\* the local calendar day, hour and minute; seconds and below are dropped
FormatDate(d, tz) ==
  IF d.t # "date" THEN [t |-> "undefined", day |-> 0, hour |-> 0, minute |-> 0]
  ELSE LET local == d.v + tz
       IN [t |-> "string", day |-> local \div DayMs,
           hour |-> (local % DayMs) \div HourMs,
           minute |-> (local % HourMs) \div MinuteMs]

\* Math.round((end?.getTime() - start?.getTime()) / 1000 / 60)
DurationMinutes(start, end) ==
  IF start.t = "date" /\ end.t = "date"
  THEN [t |-> "number", v |-> (end.v - start.v + 30 * 1000) \div MinuteMs]
  ELSE [t |-> "NaN", v |-> 0]

FormatMeeting(m, tz) ==
  [recordingId |-> m.recordingId, title |-> m.title, meetingTitle |-> m.meetingTitle,
   startedAt |-> FormatDate(m.scheduledStartTime, tz),
   endedAt |-> FormatDate(m.scheduledEndTime, tz),
   durationMinutes |-> DurationMinutes(m.scheduledStartTime, m.scheduledEndTime),
   url |-> m.url, shareUrl |-> m.shareUrl, participants |-> m.calendarInvitees]

\* variant: the formatted records are listed last first
FormatMeetingsReversed(filteredMeetings, tz) ==
  [k \in 1..Len(filteredMeetings) |->
     FormatMeeting(filteredMeetings[Len(filteredMeetings) + 1 - k], tz)]

\* filteredMeetings.map(...)
FormatMeetings(filteredMeetings, tz) ==
  [k \in 1..Len(filteredMeetings) |-> FormatMeeting(filteredMeetings[k], tz)]

ENABLE_ELICITATION == TRUE
ElicitationText == "Would you like a summary or full transcript for any of these meetings?"

\* variant: the prompt is attached whether or not a record matched
ElicitationPromptAlways(formattedMeetings) ==
  IF ENABLE_ELICITATION THEN ElicitationText ELSE ""

ElicitationPrompt(formattedMeetings) ==
  IF ENABLE_ELICITATION /\ Len(formattedMeetings) > 0 THEN ElicitationText ELSE ""

\* structuredContent of the detail tools when the result carries none
NoSummary == [t |-> "none", v |-> ""]
NoRecording == [t |-> "none", id |-> 0]

\* message is the fixed text that starts content[0].text of an error result
\* ("" when the text is the JSON of the payload); the rendering of the caught
\* error after it is left out
NoResult ==
  [kind |-> "none", isError |-> FALSE, message |-> "", meetings |-> <<>>, count |-> 0,
   elicitationPrompt |-> "", text |-> [json |-> <<>>, suffix |-> ""],
   summary |-> NoSummary, recordingId |-> NoRecording, transcript |-> <<>>,
   totalSegments |-> 0]

\* the value the try branch of the handler returns
SearchResult(formattedMeetings, hadErr) ==
  [NoResult EXCEPT
     !.kind = "search", !.isError = hadErr, !.meetings = formattedMeetings,
     !.count = Len(formattedMeetings),
     !.elicitationPrompt = ElicitationPrompt(formattedMeetings),
     !.text = [json |-> formattedMeetings,
               suffix |-> ElicitationPrompt(formattedMeetings)]]

\* the value the catch branch of the handler returns
CatchResult ==
  [NoResult EXCEPT
     !.kind = "catch", !.isError = TRUE, !.message = "Error searching meetings: "]

(***************************************************************************)
(* fathom_get_summary: the upstream's answers and the handler's results.   *)
(***************************************************************************)
Summaries == {[t |-> "summary", v |-> "overview"], [t |-> "summary", v |-> "actions"]}

\* getRecordingSummary resolves with a summary, or rejects: a thrown error, a
\* non-success status, or the 15 s timeout
SummaryOutcomes ==
  [t : {"resolves"}, why : {"none"}, summary : Summaries]
    \cup [t : {"rejects"}, why : {"exception", "status", "timeout"}, summary : {NoSummary}]

\* variant: a rejected request is answered without the error flag
SummaryResultUnflagged(outcome) ==
  [NoResult EXCEPT
     !.kind = "summary", !.summary = outcome.summary,
     !.text = [json |-> outcome.summary, suffix |-> ""]]

\* the value the handler returns for the outcome it awaited
SummaryResult(outcome) ==
  IF outcome.t = "resolves"
  THEN [NoResult EXCEPT
          !.kind = "summary", !.summary = outcome.summary,
          !.text = [json |-> outcome.summary, suffix |-> ""]]
  ELSE [NoResult EXCEPT
          !.kind = "summary", !.isError = TRUE, !.message = "Error fetching summary: "]

(***************************************************************************)
(* fathom_get_transcript: the upstream's answers and the handler's results.*)
(***************************************************************************)
Speaker(name, email) == [t |-> "object", name |-> name, email |-> email]
NoSpeaker == [t |-> "undefined", name |-> Undefined, email |-> Undefined]
NullSpeaker == [t |-> "null", name |-> Undefined, email |-> Undefined]

Item(speaker, text, timestamp) ==
  [t |-> "object", speaker |-> speaker, text |-> text, timestamp |-> timestamp]
\* a null in the transcript array
NullItem == [t |-> "null", speaker |-> NoSpeaker, text |-> "", timestamp |-> ""]

Al == Str(<<"A","l">>)
AlMail == Str(<<"a","l","@","x">>)

\* the segments the upstream answers with: a named speaker, a speaker
\* without name, with a null name, with an empty name, no speaker, a null
\* speaker
Items ==
  {Item(Speaker(Al, AlMail), "hello", "00:00:01"),
   Item(Speaker(Undefined, AlMail), "hi", "00:00:02"),
   Item(Speaker(Null, Null), "yes", "00:00:03"),
   Item(Speaker(Str(<<>>), Undefined), "no", "00:00:04"),
   Item(NoSpeaker, "so", "00:00:05"),
   Item(NullSpeaker, "bye", "00:00:06"),
   NullItem}

\* the parsed body: null, a string, an object without transcript, with a
\* transcript that is no array, with a transcript array
NotAnArray == [t |-> "string", v |-> <<>>]
Bodies ==
  [t : {"null", "string"}, hasTranscript : {FALSE}, transcript : {NotAnArray}]
    \cup [t : {"object"}, hasTranscript : {FALSE}, transcript : {NotAnArray}]
    \cup [t : {"object"}, hasTranscript : {TRUE},
          transcript : {NotAnArray, [t |-> "null", v |-> <<>>]}]
    \cup [t : {"object"}, hasTranscript : {TRUE},
          transcript : {[t |-> "array", v |-> q] : q \in SeqsUpTo(Items, MaxSegments)}]
NoBody == [t |-> "none", hasTranscript |-> FALSE, transcript |-> NotAnArray]

\* fetch rejects; or resolves with a response whose status is not ok, whose
\* body is no JSON, or whose body parses to data
FetchOutcomes ==
  [t : {"rejects"}, ok : {FALSE}, json : {FALSE}, data : {NoBody}]
    \cup [t : {"response"}, ok : {FALSE}, json : {FALSE}, data : {NoBody}]
    \cup [t : {"response"}, ok : {TRUE}, json : {FALSE}, data : {NoBody}]
    \cup [t : {"response"}, ok : {TRUE}, json : {TRUE}, data : Bodies]

\* data && typeof data === "object" && "transcript" in data &&
\* Array.isArray(data.transcript)
HasTranscriptArray(data) ==
  data.t = "object" /\ data.hasTranscript /\ data.transcript.t = "array"

UnknownSpeaker == Str(<<"U","n","k","n","o","w","n"," ","S","p","e","a","k","e","r">>)

\* item.speaker?.name, item.speaker?.email
SpeakerName(item) == IF item.speaker.t = "object" THEN item.speaker.name ELSE Undefined
SpeakerEmail(item) == IF item.speaker.t = "object" THEN item.speaker.email ELSE Undefined

\* variant: the name is passed on as it came
FormatSpeakerAsIs(item) == SpeakerName(item)

\* item.speaker?.name || "Unknown Speaker"
FormatSpeaker(item) ==
  IF Truthy(SpeakerName(item)) THEN SpeakerName(item) ELSE UnknownSpeaker

FormatItem(item) ==
  [speaker |-> FormatSpeaker(item), speakerEmail |-> SpeakerEmail(item),
   text |-> item.text, timestamp |-> item.timestamp]

\* data.transcript.map(...); reading item.speaker of a null item throws
MapThrows(transcript) == \E k \in 1..Len(transcript) : transcript[k].t = "null"
FormatTranscript(transcript) ==
  [k \in 1..Len(transcript) |-> FormatItem(transcript[k])]

TranscriptError ==
  [NoResult EXCEPT
     !.kind = "transcript", !.isError = TRUE, !.message = "Error fetching transcript: "]

\* variant: a body without transcript array is answered as an empty transcript
UnexpectedFormatAsEmpty(id, data) ==
  [NoResult EXCEPT
     !.kind = "transcript", !.recordingId = [t |-> "number", id |-> id]]

\* the else branch: the body is reported back as an error
UnexpectedFormat(id, data) ==
  [NoResult EXCEPT
     !.kind = "transcript", !.isError = TRUE,
     !.message = "Unexpected response format: ",
     !.text = [json |-> data, suffix |-> ""]]

\* the value the handler returns for the outcome it awaited
TranscriptResult(id, outcome) ==
  IF outcome.t = "rejects" \/ ~outcome.ok \/ ~outcome.json
  THEN TranscriptError
  ELSE IF HasTranscriptArray(outcome.data)
  THEN IF MapThrows(outcome.data.transcript.v)
       THEN TranscriptError
       ELSE LET formattedTranscript == FormatTranscript(outcome.data.transcript.v)
            IN [NoResult EXCEPT
                  !.kind = "transcript",
                  !.recordingId = [t |-> "number", id |-> id],
                  !.transcript = formattedTranscript,
                  !.totalSegments = Len(formattedTranscript),
                  !.text = [json |-> formattedTranscript, suffix |-> ""]]
  ELSE UnexpectedFormat(id, outcome.data)

(***************************************************************************)
(* State.                                                                  *)
(***************************************************************************)
VARIABLES
  tz,               \* offset of the process's local time from UTC, in ms
  pc,               \* per invocation: "idle", "listing", "fetched", "done"
  args,             \* per invocation: the arguments of the tool call
  allMeetings,      \* fetchAllMeetings: the accumulated collection
  cursor,           \* fetchAllMeetings: the cursor
  hasMorePages,     \* fetchAllMeetings: the loop flag
  hadError,         \* fetchAllMeetings: the error flag
  inflight,         \* per invocation: list requests awaiting their response
  filteredMeetings, \* handler: the records the filter kept
  result,           \* per invocation: the tool result handed to the caller
  sent,             \* upstream: cursors it was sent in this run
  resent,           \* upstream: it was sent some cursor twice in this run
  failed,           \* upstream: it failed a list request of this run
  received,         \* upstream: records of the pages it served in this run
  lastResponse,     \* upstream: its latest response in this run
  proc,             \* the process: "starting", "connected", "exited"
  exit,             \* the exit status, <<>> while the process runs
  stderr,           \* the lifecycle notices written with console.error
  recordingId,      \* per invocation: args.recordingId of a detail tool
  detailResponse,   \* upstream: its answer to the detail request of this run
  priorError        \* per invocation slot: an earlier call returned isError

lifecycleVars == <<proc, exit, stderr>>
detailVars == <<recordingId, detailResponse>>

vars ==
  <<tz, pc, args, allMeetings, cursor, hasMorePages, hadError, inflight,
    filteredMeetings, result, sent, resent, failed, received, lastResponse,
    proc, exit, stderr, recordingId, detailResponse, priorError>>

TimeZones == {0 - 5 * HourMs, 0, 9 * HourMs}

EmptyCursor == Str(<<>>)
CursorA == Str(<<"a">>)
CursorB == Str(<<"b">>)
\* next-cursor values of a response: absent, null, "", or a token
NextCursors == {Undefined, Null, EmptyCursor, CursorA, CursorB}
\* lastResponse before the first response of a run
NoResponse == [t |-> "none", items |-> <<>>, nextCursor |-> Undefined]
Served(response) ==
  [t |-> "response", items |-> response.items, nextCursor |-> response.nextCursor]

Pages == SeqsUpTo(UpstreamRecords, MaxPageLen)
Responses == [items : Pages, nextCursor : NextCursors]

KwStandup == <<"s","t","a","n","d","u","p">>
KwSAM == <<"S","A","M">>
KwJo == <<"j","o">>
KwNone == <<"z","z">>
KwSync == <<"s","y","n","c">>

NoFilter == SearchArgs(NoKwList, NoKwList, NoArg, NoArg)
\* titleKeywords=["standup"], startDate="2024-01-01", endDate="2024-01-05"
ExampleArgs == SearchArgs(NoKwList, KwList(<<KwStandup>>), IsoDay(0), IsoDay(4))

\* arguments of the calls of the pagination runs
\* recording ids the detail tools are called with
RecordingIdArgs == {1, 2}
\* detailResponse while no detail request was answered
NoDetail == [t |-> "none"]
SummaryAnswer(outcome) == [t |-> "summary", outcome |-> outcome]
TranscriptAnswer(outcome) == [t |-> "transcript", outcome |-> outcome]

InvokeArgs ==
  {NoFilter, ExampleArgs, SearchArgs(KwList(<<KwSAM>>), NoKwList, NoArg, NoArg)}

(***************************************************************************)
(* fetchAllMeetings: the statements of the loop body.                      *)
(***************************************************************************)
\* variant: every request starts from the beginning again
ListRequestFromStart(c) ==
  [cursor |-> EmptyCursor, includeSummary |-> FALSE, includeTranscript |-> FALSE]

\* fathom.listMeetings({cursor, includeSummary, includeTranscript})
ListRequest(c) == [cursor |-> c, includeSummary |-> FALSE, includeTranscript |-> FALSE]

\* variant: records already accumulated are not appended again
NextAllMeetingsDedup(all, items) ==
  LET Fresh(m) == \A k \in 1..Len(all) : all[k] # m
  IN all \o SelectSeq(items, Fresh)

\* allMeetings = [...allMeetings, ...response.result.items]
NextAllMeetings(all, items) == all \o items

\* cursor = response.result.nextCursor
NextCursor(response) == response.nextCursor

\* variant: only null and undefined end the loop
HasMorePagesNotNullish(c) == c.t = "string"

\* hasMorePages = !!cursor
HasMorePages(c) == Truthy(c)

TypeOK ==
  /\ tz \in TimeZones
  /\ pc \in [Invs -> {"idle", "listing", "fetched", "summary", "transcript", "done"}]
  /\ proc \in {"starting", "connected", "exited"}
  /\ exit \in {<<>>, <<0>>, <<1>>}
  /\ priorError \in [Invs -> BOOLEAN]
  /\ hasMorePages \in [Invs -> BOOLEAN]
  /\ hadError \in [Invs -> BOOLEAN]
  /\ resent \in [Invs -> BOOLEAN]
  /\ failed \in [Invs -> BOOLEAN]
  /\ \A i \in Invs : Len(inflight[i]) <= 1

Init ==
  /\ tz \in TimeZones
  /\ pc = [i \in Invs |-> "idle"]
  /\ args = [i \in Invs |-> NoFilter]
  /\ allMeetings = [i \in Invs |-> <<>>]
  /\ cursor = [i \in Invs |-> EmptyCursor]
  /\ hasMorePages = [i \in Invs |-> TRUE]
  /\ hadError = [i \in Invs |-> FALSE]
  /\ inflight = [i \in Invs |-> <<>>]
  /\ filteredMeetings = [i \in Invs |-> <<>>]
  /\ result = [i \in Invs |-> NoResult]
  /\ sent = [i \in Invs |-> {}]
  /\ resent = [i \in Invs |-> FALSE]
  /\ failed = [i \in Invs |-> FALSE]
  /\ received = [i \in Invs |-> <<>>]
  /\ lastResponse = [i \in Invs |-> NoResponse]
  /\ proc = "starting"
  /\ exit = <<>>
  /\ stderr = <<>>
  /\ recordingId = [i \in Invs |-> 0]
  /\ detailResponse = [i \in Invs |-> NoDetail]
  /\ priorError = [i \in Invs |-> FALSE]

\* main(): server.connect(stdioTransport) resolves and the notice is logged.
Connect ==
  /\ proc = "starting"
  /\ proc' = "connected"
  /\ stderr' = Append(stderr, "connected")
  /\ UNCHANGED <<tz, pc, args, allMeetings, cursor, hasMorePages, hadError, inflight,
                 filteredMeetings, result, sent, resent, failed, received,
                 lastResponse, exit, detailVars, priorError>>

\* main() rejects: the catch logs the fatal error and exits with status 1.
MainRejects ==
  /\ proc = "starting"
  /\ proc' = "exited"
  /\ exit' = <<1>>
  /\ stderr' = Append(stderr, "fatal")
  /\ UNCHANGED <<tz, pc, args, allMeetings, cursor, hasMorePages, hadError, inflight,
                 filteredMeetings, result, sent, resent, failed, received,
                 lastResponse, detailVars, priorError>>

\* what ends with the process: every activation, with its locals and the
\* requests it awaits
ProcessGone ==
  /\ pc' = [i \in Invs |-> "idle"]
  /\ args' = [i \in Invs |-> NoFilter]
  /\ allMeetings' = [i \in Invs |-> <<>>]
  /\ cursor' = [i \in Invs |-> EmptyCursor]
  /\ hasMorePages' = [i \in Invs |-> TRUE]
  /\ hadError' = [i \in Invs |-> FALSE]
  /\ inflight' = [i \in Invs |-> <<>>]
  /\ filteredMeetings' = [i \in Invs |-> <<>>]
  /\ result' = [i \in Invs |-> NoResult]
  /\ sent' = [i \in Invs |-> {}]
  /\ resent' = [i \in Invs |-> FALSE]
  /\ failed' = [i \in Invs |-> FALSE]
  /\ received' = [i \in Invs |-> <<>>]
  /\ lastResponse' = [i \in Invs |-> NoResponse]
  /\ recordingId' = [i \in Invs |-> 0]
  /\ detailResponse' = [i \in Invs |-> NoDetail]
  /\ priorError' = [i \in Invs |-> FALSE]

\* variant: the interrupt is reported as a failure
SigintFails ==
  /\ proc \in {"starting", "connected"}
  /\ proc' = "exited"
  /\ exit' = <<1>>
  /\ stderr' = Append(stderr, "disconnected")
  /\ ProcessGone
  /\ UNCHANGED tz

\* SIGINT: the listener logs the disconnect notice and exits with status 0.
Sigint ==
  /\ proc \in {"starting", "connected"}
  /\ proc' = "exited"
  /\ exit' = <<0>>
  /\ stderr' = Append(stderr, "disconnected")
  /\ ProcessGone
  /\ UNCHANGED tz

\* the slot's earlier calls: one of them returned an error result
PriorError(i) == priorError[i] \/ (pc[i] = "done" /\ result[i].isError)

\* variant: the accumulator and the error flag outlive the call
InvokeKeepingState(i, a) ==
  /\ proc = "connected"
  /\ pc[i] \in {"idle", "done"}
  /\ pc' = [pc EXCEPT ![i] = "listing"]
  /\ args' = [args EXCEPT ![i] = a]
  /\ cursor' = [cursor EXCEPT ![i] = EmptyCursor]
  /\ hasMorePages' = [hasMorePages EXCEPT ![i] = TRUE]
  /\ inflight' = [inflight EXCEPT ![i] = <<ListRequest(EmptyCursor)>>]
  /\ filteredMeetings' = [filteredMeetings EXCEPT ![i] = <<>>]
  /\ result' = [result EXCEPT ![i] = NoResult]
  /\ sent' = [sent EXCEPT ![i] = {EmptyCursor}]
  /\ resent' = [resent EXCEPT ![i] = FALSE]
  /\ failed' = [failed EXCEPT ![i] = FALSE]
  /\ received' = [received EXCEPT ![i] = <<>>]
  /\ lastResponse' = [lastResponse EXCEPT ![i] = NoResponse]
  /\ recordingId' = [recordingId EXCEPT ![i] = 0]
  /\ detailResponse' = [detailResponse EXCEPT ![i] = NoDetail]
  /\ priorError' = [priorError EXCEPT ![i] = PriorError(i)]
  /\ UNCHANGED <<tz, allMeetings, hadError, lifecycleVars>>

\* The host calls search_meetings: the handler enters fetchAllMeetings, which
\* initialises its locals and awaits the first page.
Invoke(i, a) ==
  /\ proc = "connected"
  /\ pc[i] \in {"idle", "done"}
  /\ pc' = [pc EXCEPT ![i] = "listing"]
  /\ args' = [args EXCEPT ![i] = a]
  /\ allMeetings' = [allMeetings EXCEPT ![i] = <<>>]
  /\ cursor' = [cursor EXCEPT ![i] = EmptyCursor]
  /\ hasMorePages' = [hasMorePages EXCEPT ![i] = TRUE]
  /\ hadError' = [hadError EXCEPT ![i] = FALSE]
  /\ inflight' = [inflight EXCEPT ![i] = <<ListRequest(EmptyCursor)>>]
  /\ filteredMeetings' = [filteredMeetings EXCEPT ![i] = <<>>]
  /\ result' = [result EXCEPT ![i] = NoResult]
  /\ sent' = [sent EXCEPT ![i] = {EmptyCursor}]
  /\ resent' = [resent EXCEPT ![i] = FALSE]
  /\ failed' = [failed EXCEPT ![i] = FALSE]
  /\ received' = [received EXCEPT ![i] = <<>>]
  /\ lastResponse' = [lastResponse EXCEPT ![i] = NoResponse]
  /\ recordingId' = [recordingId EXCEPT ![i] = 0]
  /\ detailResponse' = [detailResponse EXCEPT ![i] = NoDetail]
  /\ priorError' = [priorError EXCEPT ![i] = PriorError(i)]
  /\ UNCHANGED <<tz, lifecycleVars>>

\* variant: one accumulator serves every call that is fetching pages
ListResponseShared(i, response) ==
  /\ proc = "connected"
  /\ pc[i] = "listing"
  /\ inflight[i] # <<>>
  /\ Len(received[i]) + Len(response.items) <= MaxItems
  /\ LET c2 == NextCursor(response)
         more == HasMorePages(c2)
         request == ListRequest(c2)
     IN /\ allMeetings' = [j \in Invs |->
                             IF j = i \/ pc[j] = "listing"
                             THEN NextAllMeetings(allMeetings[j], response.items)
                             ELSE allMeetings[j]]
        /\ cursor' = [cursor EXCEPT ![i] = c2]
        /\ hasMorePages' = [hasMorePages EXCEPT ![i] = more]
        /\ inflight' = [inflight EXCEPT ![i] =
                          IF more THEN Append(Tail(@), request) ELSE Tail(@)]
        /\ pc' = [pc EXCEPT ![i] = IF more THEN "listing" ELSE "fetched"]
        /\ sent' = [sent EXCEPT ![i] = IF more THEN @ \cup {request.cursor} ELSE @]
        /\ resent' = [resent EXCEPT ![i] = @ \/ (more /\ request.cursor \in sent[i])]
  /\ received' = [received EXCEPT ![i] = @ \o response.items]
  /\ lastResponse' = [lastResponse EXCEPT ![i] = Served(response)]
  /\ UNCHANGED <<tz, args, hadError, filteredMeetings, result, failed,
                 lifecycleVars, detailVars, priorError>>

\* A page arrives: append, take the next cursor, and either request the next
\* page or return from fetchAllMeetings.
ListResponse(i, response) ==
  /\ proc = "connected"
  /\ pc[i] = "listing"
  /\ inflight[i] # <<>>
  /\ Len(received[i]) + Len(response.items) <= MaxItems
  /\ LET all2 == NextAllMeetings(allMeetings[i], response.items)
         c2 == NextCursor(response)
         more == HasMorePages(c2)
         request == ListRequest(c2)
     IN /\ allMeetings' = [allMeetings EXCEPT ![i] = all2]
        /\ cursor' = [cursor EXCEPT ![i] = c2]
        /\ hasMorePages' = [hasMorePages EXCEPT ![i] = more]
        /\ inflight' = [inflight EXCEPT ![i] =
                          IF more THEN Append(Tail(@), request) ELSE Tail(@)]
        /\ pc' = [pc EXCEPT ![i] = IF more THEN "listing" ELSE "fetched"]
        /\ sent' = [sent EXCEPT ![i] = IF more THEN @ \cup {request.cursor} ELSE @]
        /\ resent' = [resent EXCEPT ![i] = @ \/ (more /\ request.cursor \in sent[i])]
  /\ received' = [received EXCEPT ![i] = @ \o response.items]
  /\ lastResponse' = [lastResponse EXCEPT ![i] = Served(response)]
  /\ UNCHANGED <<tz, args, hadError, filteredMeetings, result, failed,
                 lifecycleVars, detailVars, priorError>>

\* variant: the catch block sets the flag and tries the page again
ListFailureRetry(i) ==
  /\ proc = "connected"
  /\ pc[i] = "listing"
  /\ inflight[i] # <<>>
  /\ hadError' = [hadError EXCEPT ![i] = TRUE]
  /\ inflight' = [inflight EXCEPT ![i] = Append(Tail(@), ListRequest(cursor[i]))]
  /\ failed' = [failed EXCEPT ![i] = TRUE]
  /\ resent' = [resent EXCEPT ![i] = TRUE]
  /\ UNCHANGED <<tz, pc, args, allMeetings, cursor, hasMorePages, filteredMeetings,
                 result, sent, received, lastResponse,
                 lifecycleVars, detailVars, priorError>>

\* The page request throws: the catch block sets the flag and breaks.
ListFailure(i) ==
  /\ proc = "connected"
  /\ pc[i] = "listing"
  /\ inflight[i] # <<>>
  /\ hadError' = [hadError EXCEPT ![i] = TRUE]
  /\ inflight' = [inflight EXCEPT ![i] = Tail(@)]
  /\ pc' = [pc EXCEPT ![i] = "fetched"]
  /\ failed' = [failed EXCEPT ![i] = TRUE]
  /\ UNCHANGED <<tz, args, allMeetings, cursor, hasMorePages, filteredMeetings,
                 result, sent, resent, received, lastResponse,
                 lifecycleVars, detailVars, priorError>>

\* variant: an errored aggregation is answered with the error message alone
HandlerResultErrorOnly(filtered, hadErr, zone) ==
  IF hadErr THEN CatchResult ELSE SearchResult(FormatMeetings(filtered, zone), hadErr)

\* what the handler returns for the aggregation it awaited
HandlerResult(filtered, hadErr, zone) ==
  SearchResult(FormatMeetings(filtered, zone), hadErr)

\* The handler resumes after await fetchAllMeetings: filter, format, return.
Finish(i) ==
  /\ proc = "connected"
  /\ pc[i] = "fetched"
  /\ LET filtered == FilterMeetings(allMeetings[i], args[i], tz)
     IN /\ filteredMeetings' = [filteredMeetings EXCEPT ![i] = filtered]
        /\ result' = [result EXCEPT ![i] = HandlerResult(filtered, hadError[i], tz)]
  /\ pc' = [pc EXCEPT ![i] = "done"]
  /\ UNCHANGED <<tz, args, allMeetings, cursor, hasMorePages, hadError, inflight,
                 sent, resent, failed, received, lastResponse,
                 lifecycleVars, detailVars, priorError>>

\* The host calls a detail tool: the handler sends its request and awaits it.
InvokeDetail(i, tool, id) ==
  /\ proc = "connected"
  /\ pc[i] \in {"idle", "done"}
  /\ pc' = [pc EXCEPT ![i] = tool]
  /\ recordingId' = [recordingId EXCEPT ![i] = id]
  /\ args' = [args EXCEPT ![i] = NoFilter]
  /\ allMeetings' = [allMeetings EXCEPT ![i] = <<>>]
  /\ cursor' = [cursor EXCEPT ![i] = EmptyCursor]
  /\ hasMorePages' = [hasMorePages EXCEPT ![i] = TRUE]
  /\ hadError' = [hadError EXCEPT ![i] = FALSE]
  /\ filteredMeetings' = [filteredMeetings EXCEPT ![i] = <<>>]
  /\ result' = [result EXCEPT ![i] = NoResult]
  /\ sent' = [sent EXCEPT ![i] = {}]
  /\ resent' = [resent EXCEPT ![i] = FALSE]
  /\ failed' = [failed EXCEPT ![i] = FALSE]
  /\ received' = [received EXCEPT ![i] = <<>>]
  /\ lastResponse' = [lastResponse EXCEPT ![i] = NoResponse]
  /\ detailResponse' = [detailResponse EXCEPT ![i] = NoDetail]
  /\ priorError' = [priorError EXCEPT ![i] = PriorError(i)]
  /\ UNCHANGED <<tz, inflight, lifecycleVars>>

\* fathom_get_summary is called with a recording id
InvokeSummary(i, id) == InvokeDetail(i, "summary", id)

\* fathom_get_transcript is called with a recording id
InvokeTranscript(i, id) == InvokeDetail(i, "transcript", id)

\* getRecordingSummary settles: the handler resumes and returns.
SummaryResponse(i, outcome) ==
  /\ proc = "connected"
  /\ pc[i] = "summary"
  /\ pc' = [pc EXCEPT ![i] = "done"]
  /\ result' = [result EXCEPT ![i] = SummaryResult(outcome)]
  /\ detailResponse' = [detailResponse EXCEPT ![i] = SummaryAnswer(outcome)]
  /\ UNCHANGED <<tz, args, allMeetings, cursor, hasMorePages, hadError, inflight,
                 filteredMeetings, sent, resent, failed, received, lastResponse,
                 lifecycleVars, recordingId, priorError>>

\* fetch and response.json() settle: the handler resumes and returns.
TranscriptResponse(i, outcome) ==
  /\ proc = "connected"
  /\ pc[i] = "transcript"
  /\ pc' = [pc EXCEPT ![i] = "done"]
  /\ result' = [result EXCEPT ![i] = TranscriptResult(recordingId[i], outcome)]
  /\ detailResponse' = [detailResponse EXCEPT ![i] = TranscriptAnswer(outcome)]
  /\ UNCHANGED <<tz, args, allMeetings, cursor, hasMorePages, hadError, inflight,
                 filteredMeetings, sent, resent, failed, received, lastResponse,
                 lifecycleVars, recordingId, priorError>>

\* what the upstream may answer to the request the slot's call awaits
ListAnswers(i) == IF pc[i] = "listing" THEN Responses ELSE {}
SummaryAnswers(i) == IF pc[i] = "summary" THEN SummaryOutcomes ELSE {}
TranscriptAnswers(i) == IF pc[i] = "transcript" THEN FetchOutcomes ELSE {}

Next ==
  \/ Connect
  \/ MainRejects
  \/ Sigint
  \/ \E i \in SeqInvs :
        \/ \E a \in InvokeArgs : Invoke(i, a)
        \/ \E response \in ListAnswers(i) : ListResponse(i, response)
        \/ ListFailure(i)
        \/ Finish(i)
        \/ \E id \in RecordingIdArgs : InvokeSummary(i, id)
        \/ \E outcome \in SummaryAnswers(i) : SummaryResponse(i, outcome)
        \/ \E id \in RecordingIdArgs : InvokeTranscript(i, id)
        \/ \E outcome \in TranscriptAnswers(i) : TranscriptResponse(i, outcome)

Spec == Init /\ [][Next]_vars

(***************************************************************************)
(* The filter on its own: the handler resumes with an aggregated           *)
(* collection and arguments drawn from bounded sets.                       *)
(***************************************************************************)
ParticipantKwLists == {NoKwList, KwList(<<>>), KwList(<<KwSAM>>), KwList(<<KwSync>>)}
TitleKwLists ==
  {NoKwList, KwList(<<KwStandup>>), KwList(<<KwNone, KwJo>>), KwList(<< <<>> >>)}
StartDates == {NoArg, EmptyArg, IsoDay(0), BadDate}
EndDates == {NoArg, IsoDay(4)}

FilterArgs ==
  {SearchArgs(pk, tk, sd, ed) :
     pk \in ParticipantKwLists, tk \in TitleKwLists, sd \in StartDates, ed \in EndDates}

Collections == SeqsUpTo(Catalogue, MaxColl)

FilterInit ==
  /\ tz \in TimeZones
  /\ pc = [i \in Invs |-> IF i \in SeqInvs THEN "fetched" ELSE "idle"]
  /\ \E a \in FilterArgs :
        args = [i \in Invs |-> IF i \in SeqInvs THEN a ELSE NoFilter]
  /\ \E c \in Collections :
        /\ allMeetings = [i \in Invs |-> IF i \in SeqInvs THEN c ELSE <<>>]
        /\ received = [i \in Invs |-> IF i \in SeqInvs THEN c ELSE <<>>]
  /\ cursor = [i \in Invs |-> IF i \in SeqInvs THEN Null ELSE EmptyCursor]
  /\ hasMorePages = [i \in Invs |-> ~(i \in SeqInvs)]
  /\ hadError = [i \in Invs |-> FALSE]
  /\ inflight = [i \in Invs |-> <<>>]
  /\ filteredMeetings = [i \in Invs |-> <<>>]
  /\ result = [i \in Invs |-> NoResult]
  /\ sent = [i \in Invs |-> IF i \in SeqInvs THEN {EmptyCursor} ELSE {}]
  /\ resent = [i \in Invs |-> FALSE]
  /\ failed = [i \in Invs |-> FALSE]
  /\ lastResponse = [i \in Invs |->
        IF i \in SeqInvs
        THEN [t |-> "response", items |-> allMeetings[i], nextCursor |-> Null]
        ELSE NoResponse]
  /\ proc = "connected"
  /\ exit = <<>>
  /\ stderr = <<"connected">>
  /\ recordingId = [i \in Invs |-> 0]
  /\ detailResponse = [i \in Invs |-> NoDetail]
  /\ priorError = [i \in Invs |-> FALSE]

FilterNext == \E i \in SeqInvs : Finish(i)

FilterSpec == FilterInit /\ [][FilterNext]_vars

\* every list request eventually responds or fails, and a resumed handler runs
Upstream(i) == (\E response \in Responses : ListResponse(i, response)) \/ ListFailure(i)

\* the pagination loop alone: one time zone, calls without filter arguments
LoopInit == Init /\ tz = 0

LoopNext ==
  \/ Connect
  \/ \E i \in SeqInvs :
        \/ Invoke(i, NoFilter)
        \/ \E response \in Responses : ListResponse(i, response)
        \/ ListFailure(i)
        \/ Finish(i)

FairSpec ==
  /\ LoopInit /\ [][LoopNext]_vars
  /\ \A i \in SeqInvs : WF_vars(Upstream(i)) /\ WF_vars(Finish(i))

\* Calls of search_meetings that overlap: every slot's handler was called
\* before any page arrived, and the pages of the calls arrive in any order.
\* The upstream serves pages of at most one record and no cursor twice.
ConcResponses == [items : {<<>>, <<Standup>>, <<Planning>>}, nextCursor : {Null, CursorA}]
FreshAnswers(i) ==
  IF pc[i] = "listing"
  THEN {response \in ConcResponses : response.nextCursor \notin sent[i]}
  ELSE {}

ConcInit ==
  /\ tz = 0
  /\ pc = [i \in Invs |-> "listing"]
  /\ args = [i \in Invs |-> NoFilter]
  /\ allMeetings = [i \in Invs |-> <<>>]
  /\ cursor = [i \in Invs |-> EmptyCursor]
  /\ hasMorePages = [i \in Invs |-> TRUE]
  /\ hadError = [i \in Invs |-> FALSE]
  /\ inflight = [i \in Invs |-> <<ListRequest(EmptyCursor)>>]
  /\ filteredMeetings = [i \in Invs |-> <<>>]
  /\ result = [i \in Invs |-> NoResult]
  /\ sent = [i \in Invs |-> {EmptyCursor}]
  /\ resent = [i \in Invs |-> FALSE]
  /\ failed = [i \in Invs |-> FALSE]
  /\ received = [i \in Invs |-> <<>>]
  /\ lastResponse = [i \in Invs |-> NoResponse]
  /\ proc = "connected"
  /\ exit = <<>>
  /\ stderr = <<"connected">>
  /\ recordingId = [i \in Invs |-> 0]
  /\ detailResponse = [i \in Invs |-> NoDetail]
  /\ priorError = [i \in Invs |-> FALSE]

ConcNext ==
  \E i \in Invs :
     \/ \E response \in FreshAnswers(i) : ListResponse(i, response)
     \/ ListFailure(i)
     \/ Finish(i)

ConcSpec == ConcInit /\ [][ConcNext]_vars

(***************************************************************************)
(* Properties of the pagination loop.                                      *)
(***************************************************************************)
Returned(i) == pc[i] \in {"fetched", "done"}

\* C1: when no page request of a run failed, fetchAllMeetings returns the
\* concatenation of the items of the pages served, in the order served, with
\* nothing dropped, reordered or de-duplicated, and hadError = false.
C1_ConcatOnSuccess ==
  \A i \in Invs :
     (Returned(i) /\ ~failed[i]) =>
        /\ allMeetings[i] = received[i]
        /\ hadError[i] = FALSE

\* three records over two or more pages, the first one served again as the third
C1_Witness ==
  \E i \in Invs :
     /\ pc[i] = "fetched" /\ ~failed[i]
     /\ Cardinality(sent[i]) >= 2
     /\ Len(allMeetings[i]) = 3
     /\ allMeetings[i][1] = allMeetings[i][3]
     /\ allMeetings[i][1] # allMeetings[i][2]

\* C2: when a page request fails, fetchAllMeetings returns the concatenation
\* of the pages served before it with hadError = true, and no list request
\* is issued after the failed one.
C2_PartialOnFailure ==
  \A i \in Invs :
     failed[i] =>
        /\ Returned(i)
        /\ inflight[i] = <<>>
        /\ allMeetings[i] = received[i]
        /\ hadError[i] = TRUE

\* the failure hit a later page, after records had been accumulated
C2_Witness ==
  \E i \in Invs :
     /\ failed[i] /\ pc[i] = "fetched"
     /\ Cardinality(sent[i]) >= 2
     /\ Len(allMeetings[i]) >= 2

\* C3: within one run the same cursor value is never sent to the upstream
\* twice, whatever next-cursor values the upstream returns.
C3_NoCursorSentTwice == \A i \in Invs : ~resent[i]

\* next-cursor values that end the loop: absent, null and the empty string
EndsLoop(c) == c \in {Undefined, Null, EmptyCursor}

\* C4: after a successful page the run goes on exactly when the next-cursor
\* is neither absent, null nor empty, whatever the number of items; when it
\* ends this way the error flag is false.
C4_CursorGovernsContinuation ==
  \A i \in Invs :
     (lastResponse[i].t = "response" /\ ~failed[i]) =>
        /\ (pc[i] = "listing") <=> ~EndsLoop(lastResponse[i].nextCursor)
        /\ EndsLoop(lastResponse[i].nextCursor) => (Returned(i) /\ hadError[i] = FALSE)

\* a page without items and with a next-cursor is followed by another request
C4_Witness ==
  \E i \in Invs :
     /\ lastResponse[i].t = "response"
     /\ lastResponse[i].items = <<>>
     /\ lastResponse[i].nextCursor = CursorA
     /\ pc[i] = "listing" /\ Len(inflight[i]) = 1

\* C5: the first request carries the empty cursor, a later one the
\* next-cursor of the response before it; a request is outstanding only
\* while the loop awaits it, after the items of every response so far were
\* appended, and never more than one.
C5_OneRequestInCursorOrder ==
  \A i \in Invs :
     /\ Len(inflight[i]) <= 1
     /\ (pc[i] = "listing") <=> (inflight[i] # <<>>)
     /\ pc[i] = "listing" =>
          /\ inflight[i][1].cursor =
               IF lastResponse[i].t = "none" THEN EmptyCursor
               ELSE lastResponse[i].nextCursor
          /\ allMeetings[i] = received[i]

\* a later request, carrying the token the page before it returned
C5_Witness ==
  \E i \in Invs :
     /\ pc[i] = "listing"
     /\ lastResponse[i].t = "response"
     /\ lastResponse[i].nextCursor = CursorB
     /\ inflight[i] = <<ListRequest(CursorB)>>
     /\ Len(received[i]) >= 1

\* C6: an invocation that awaits a page eventually returns its result.
C6_InvocationCompletes ==
  \A i \in Invs : (pc[i] = "listing") ~> (pc[i] = "done")

\* C7: when a page failed, the tool result has isError = true and carries
\* the filtered, projected records of the pages served before the failure.
C7_PartialResultOnError ==
  \A i \in Invs :
     (pc[i] = "done" /\ failed[i]) =>
        /\ result[i].kind = "search"
        /\ result[i].isError = TRUE
        /\ result[i].meetings =
             FormatMeetings(FilterMeetings(received[i], args[i], tz), tz)
        /\ result[i].count = Len(result[i].meetings)

\* an errored result that still carries a record, another one filtered out
C7_Witness ==
  \E i \in Invs :
     /\ pc[i] = "done" /\ failed[i]
     /\ result[i].isError
     /\ Len(received[i]) = 2
     /\ Len(result[i].meetings) = 1
     /\ result[i].meetings[1].recordingId = 1

(***************************************************************************)
(* Properties of the filter.                                               *)
(***************************************************************************)
\* two characters that are the same up to letter case
SameLetter(a, b) ==
  a = b \/ \E k \in 1..Len(UpperCase) : {a, b} = {UpperCase[k], LowerCase[k]}

\* kw occurs in text at some offset, letter case ignored
OccursIn(kw, text) ==
  \E off \in 0..(Len(text) - Len(kw)) :
     \A j \in 1..Len(kw) : SameLetter(text[off + j], kw[j])

Present(x) == IF x.t = "string" THEN {x.v} ELSE {}

\* the texts of a record a keyword is looked up in
TextFields(m) ==
  Present(m.title) \cup Present(m.meetingTitle)
    \cup UNION {Present(m.calendarInvitees.v[j].name) \cup
                Present(m.calendarInvitees.v[j].email) :
                  j \in 1..Len(m.calendarInvitees.v)}

ListMembers(l) == {l.v[k] : k \in 1..Len(l.v)}

\* the two keyword lists merged into one set
KeywordSet(a) == ListMembers(a.participantKeywords) \cup ListMembers(a.titleKeywords)

KeywordHit(m, a) == \E kw \in KeywordSet(a), f \in TextFields(m) : OccursIn(kw, f)

KeywordCriterion(m, a) == KeywordSet(a) = {} \/ KeywordHit(m, a)

\* local midnight of the local calendar day that holds UTC midnight of day d
LocalMidnight(d, zone) ==
  CHOOSE t \in {(d + k) * DayMs - zone : k \in {0 - 1, 0, 1}} :
     t <= d * DayMs /\ d * DayMs < t + DayMs

Given(s) == s.t = "string" /\ s.form # "empty"

DateCriterion(m, a, zone) ==
  /\ Given(a.startDate) =>
        /\ a.startDate.form = "iso-date"
        /\ m.scheduledStartTime.t = "date"
        /\ m.scheduledStartTime.v >= LocalMidnight(a.startDate.day, zone)
  /\ Given(a.endDate) =>
        /\ a.endDate.form = "iso-date"
        /\ m.scheduledStartTime.t = "date"
        /\ m.scheduledStartTime.v <= LocalMidnight(a.endDate.day, zone) + DayMs - 1

Satisfying(all, a, zone) ==
  LET Both(m) == KeywordCriterion(m, a) /\ DateCriterion(m, a, zone)
  IN SelectSeq(all, Both)

RecordingIds(ms) == [k \in 1..Len(ms) |-> ms[k].recordingId]

\* C8: the result holds exactly the records that satisfy the keyword
\* criterion and the date criterion; [Standup, Planning] filtered with
\* titleKeywords=["standup"], 2024-01-01..2024-01-05 gives the first only.
C8_KeywordAndDate ==
  \A i \in Invs :
     pc[i] = "done" =>
        /\ filteredMeetings[i] = Satisfying(allMeetings[i], args[i], tz)
        /\ RecordingIds(result[i].meetings) = RecordingIds(filteredMeetings[i])
        /\ (allMeetings[i] = <<Standup, Planning>> /\ args[i] = ExampleArgs) =>
              result[i].meetings = <<FormatMeeting(Standup, tz)>>

C8_Witness ==
  \E i \in Invs :
     /\ pc[i] = "done"
     /\ allMeetings[i] = <<Standup, Planning>>
     /\ args[i] = ExampleArgs
     /\ RecordingIds(result[i].meetings) = <<1>>

DatesAbsent(a) == a.startDate.t = "undefined" /\ a.endDate.t = "undefined"

Kept(i) == {filteredMeetings[i][k] : k \in 1..Len(filteredMeetings[i])}

\* C9: with a keyword supplied (and no date), a record is kept exactly when
\* some keyword of the merged lists occurs, letter case ignored, in an
\* invitee's name or email, the title or the meetingTitle.
C9_KeywordAnyField ==
  \A i \in Invs :
     (pc[i] = "done" /\ KeywordSet(args[i]) # {} /\ DatesAbsent(args[i])) =>
        \A k \in 1..Len(allMeetings[i]) :
           (allMeetings[i][k] \in Kept(i)) <=> KeywordHit(allMeetings[i][k], args[i])

\* a title keyword found only in an invitee's name, and a participant
\* keyword found only in an invitee's email
C9_Witness ==
  \E i \in Invs :
     /\ pc[i] = "done" /\ DatesAbsent(args[i])
     /\ args[i].participantKeywords = KwList(<<KwSAM>>)
     /\ args[i].titleKeywords = KwList(<<KwNone, KwJo>>)
     /\ allMeetings[i] = <<Planning, Standup>>
     /\ filteredMeetings[i] = <<Planning, Standup>>

\* C10: without any keyword and without startDate and endDate the filter
\* keeps the whole collection, in its order.
C10_NoCriteriaIdentity ==
  \A i \in Invs :
     (pc[i] = "done" /\ KeywordSet(args[i]) = {} /\ DatesAbsent(args[i])) =>
        /\ filteredMeetings[i] = allMeetings[i]
        /\ result[i].count = Len(allMeetings[i])

C10_Witness ==
  \E i \in Invs :
     /\ pc[i] = "done" /\ DatesAbsent(args[i])
     /\ args[i].participantKeywords = KwList(<<>>)
     /\ args[i].titleKeywords = NoKwList
     /\ allMeetings[i] = <<Bare, Standup>>
     /\ filteredMeetings[i] = <<Bare, Standup>>

\* first and last millisecond of calendar day d at offset zone from UTC
DayStart(d, zone) == d * DayMs - zone
DayEnd(d, zone) == d * DayMs - zone + DayMs - 1

WithinDays(m, a, zone) ==
  /\ Given(a.startDate) => m.scheduledStartTime.v >= DayStart(a.startDate.day, zone)
  /\ Given(a.endDate) => m.scheduledStartTime.v <= DayEnd(a.endDate.day, zone)

DatesParse(a) ==
  /\ Given(a.startDate) \/ Given(a.endDate)
  /\ Given(a.startDate) => a.startDate.form = "iso-date"
  /\ Given(a.endDate) => a.endDate.form = "iso-date"

\* C11: a record with a start time that passes the keyword criterion is kept
\* exactly when its start lies, bounds included, between 00:00:00.000 of the
\* startDate's calendar day and 23:59:59.999 of the endDate's calendar day,
\* for whichever of the two is supplied; the calendar day is read in the
\* process's local time or in UTC.
C11_CalendarDayBounds ==
  \A i \in Invs :
     (pc[i] = "done" /\ DatesParse(args[i])) =>
        \A k \in 1..Len(allMeetings[i]) :
           LET m == allMeetings[i][k]
           IN (m.scheduledStartTime.t = "date" /\ KeywordCriterion(m, args[i])) =>
                \/ (m \in Kept(i)) <=> WithinDays(m, args[i], tz)
                \/ (m \in Kept(i)) <=> WithinDays(m, args[i], 0)

\* C12: the result carries the non-empty prompt, in the text and in the
\* structured payload, exactly when a record matched; the prompt is one
\* fixed text.
C12_PromptIffMatch ==
  \A i \in Invs :
     pc[i] = "done" =>
        /\ (result[i].elicitationPrompt # "") <=> (Len(filteredMeetings[i]) > 0)
        /\ result[i].text.suffix = result[i].elicitationPrompt
        /\ result[i].elicitationPrompt \in {"", ElicitationText}

C12_Witness ==
  \E i \in Invs :
     /\ pc[i] = "done"
     /\ Len(filteredMeetings[i]) = 2
     /\ filteredMeetings[i][1] # filteredMeetings[i][2]
     /\ result[i].elicitationPrompt = ElicitationText
     /\ result[i].text.suffix = ElicitationText

\* a is b with some elements left out
RECURSIVE IsSubSeq(_, _)
IsSubSeq(a, b) ==
  IF a = <<>> THEN TRUE
  ELSE IF b = <<>> THEN FALSE
  ELSE IF Head(a) = Head(b) THEN IsSubSeq(Tail(a), Tail(b))
  ELSE IsSubSeq(a, Tail(b))

\* C19: the meetings of a result of the try branch are projections of
\* aggregated records, in the order of the aggregated collection and none
\* more often than aggregated; count is their number.
C19_ProjectedSubSequence ==
  \A i \in Invs :
     (pc[i] = "done" /\ result[i].kind = "search") =>
        /\ IsSubSeq(RecordingIds(result[i].meetings), RecordingIds(allMeetings[i]))
        /\ \A k \in 1..Len(result[i].meetings) :
              \E j \in 1..Len(allMeetings[i]) :
                 result[i].meetings[k] = FormatMeeting(allMeetings[i][j], tz)
        /\ result[i].count = Len(result[i].meetings)

\* two different records kept out of a longer collection would need MaxColl
\* of three; two kept out of two, in their order
C19_Witness ==
  \E i \in Invs :
     /\ pc[i] = "done" /\ result[i].kind = "search"
     /\ allMeetings[i] = <<Sync, Planning>>
     /\ RecordingIds(result[i].meetings) = <<3, 2>>
     /\ result[i].count = 2

DetailFailed(i) ==
  /\ detailResponse[i].t # "none"
  /\ LET o == detailResponse[i].outcome
     IN \/ o.t = "rejects"
        \/ detailResponse[i].t = "transcript" /\ (~o.ok \/ ~o.json)

\* C13 as stated: whichever tool met an upstream failure, its handler has
\* returned a result with isError = true and a message, and the process is
\* connected and takes the next call.
C13_ErrorResultWithMessage ==
  \A i \in Invs :
     /\ DetailFailed(i) => pc[i] = "done"
     /\ (pc[i] = "done" /\ (failed[i] \/ DetailFailed(i))) =>
          /\ result[i].isError = TRUE
          /\ result[i].message # ""
          /\ proc = "connected"
          /\ ENABLED Invoke(i, NoFilter)

\* C13: a detail tool that met an upstream failure has returned isError =
\* true with its message and no payload; search_meetings has returned
\* isError = true with the records of the pages before the failure as its
\* text and no message; after an error result the process is connected and
\* takes the next call.
C13_ErrorResultPerTool ==
  \A i \in Invs :
     /\ DetailFailed(i) =>
          /\ pc[i] = "done"
          /\ result[i].isError = TRUE
          /\ result[i].message =
               IF detailResponse[i].t = "summary" THEN "Error fetching summary: "
               ELSE "Error fetching transcript: "
          /\ result[i].summary = NoSummary /\ result[i].transcript = <<>>
     /\ (pc[i] = "done" /\ failed[i]) =>
          /\ result[i].isError = TRUE
          /\ result[i].kind = "search" /\ result[i].message = ""
          /\ result[i].text.json = result[i].meetings
     /\ (pc[i] = "done" /\ result[i].isError) =>
          /\ proc = "connected"
          /\ ENABLED Invoke(i, NoFilter)

\* the summary request timed out in a call served after an earlier error
C13_Witness ==
  \E i \in Invs :
     /\ priorError[i] /\ pc[i] = "done"
     /\ detailResponse[i].t = "summary" /\ detailResponse[i].outcome.why = "timeout"
     /\ result[i].isError /\ result[i].message = "Error fetching summary: "
     /\ proc = "connected"

\* the transcript request was answered with a body that parsed
Parsed(i) ==
  /\ detailResponse[i].t = "transcript"
  /\ detailResponse[i].outcome.t = "response"
  /\ detailResponse[i].outcome.ok /\ detailResponse[i].outcome.json

Body(i) == detailResponse[i].outcome.data

Named(item) ==
  /\ item.speaker.t = "object"
  /\ item.speaker.name.t = "string"
  /\ item.speaker.name.v # <<>>

\* the transcript was fetched: a transcript array of segments
Fetched(i) ==
  /\ Parsed(i)
  /\ Body(i).t = "object" /\ Body(i).hasTranscript /\ Body(i).transcript.t = "array"
  /\ \A k \in 1..Len(Body(i).transcript.v) : Body(i).transcript.v[k].t = "object"

\* C15: the result of a fetched transcript has one segment per upstream
\* segment, in order; its speaker is the upstream name when there is one and
\* "Unknown Speaker" otherwise, never empty, null or undefined.
C15_SpeakerFallback ==
  \A i \in Invs :
     Fetched(i) =>
        LET upstream == Body(i).transcript.v
            out == result[i].transcript
        IN /\ pc[i] = "done" /\ result[i].isError = FALSE
           /\ Len(out) = Len(upstream)
           /\ result[i].totalSegments = Len(upstream)
           /\ \A k \in 1..Len(upstream) :
                 /\ out[k].text = upstream[k].text
                 /\ out[k].timestamp = upstream[k].timestamp
                 /\ out[k].speaker =
                      IF Named(upstream[k]) THEN upstream[k].speaker.name
                      ELSE UnknownSpeaker
                 /\ out[k].speaker \notin {Str(<<>>), Null, Undefined}

\* a segment without speaker name before a named one
C15_Witness ==
  \E i \in Invs :
     /\ Fetched(i) /\ pc[i] = "done"
     /\ Len(result[i].transcript) = 2
     /\ ~Named(Body(i).transcript.v[1]) /\ Named(Body(i).transcript.v[2])
     /\ result[i].transcript[1].speaker = UnknownSpeaker
     /\ result[i].transcript[2].speaker = Al

\* C16: a search_meetings call starts with the empty cursor, an empty
\* accumulator and a cleared error flag, and its result is the one its own
\* arguments and the pages served to it determine, whatever the slot's
\* earlier calls returned.
C16_StatelessInvocations ==
  \A i \in Invs :
     /\ (pc[i] = "listing" /\ lastResponse[i].t = "none") =>
          /\ allMeetings[i] = <<>>
          /\ cursor[i] = EmptyCursor
          /\ hadError[i] = FALSE
          /\ inflight[i] = <<ListRequest(EmptyCursor)>>
     /\ (pc[i] = "done" /\ result[i].kind = "search") =>
          result[i] =
            SearchResult(FormatMeetings(FilterMeetings(received[i], args[i], tz), tz),
                         failed[i])

\* a search without error that returns a record, after an errored call
C16_Witness ==
  \E i \in Invs :
     /\ priorError[i]
     /\ pc[i] = "done" /\ result[i].kind = "search"
     /\ ~result[i].isError
     /\ Len(received[i]) >= 1 /\ Len(result[i].meetings) >= 1

\* C18: the process connects once; while connected it leaves that state
\* only by the interrupt, which logs the disconnect notice and exits with
\* status 0; an exited process takes no step, and no call awaiting its
\* upstream at the interrupt returns.
C18_Lifecycle ==
  /\ [](proc = "connected" => (stderr = <<"connected">> /\ exit = <<>>))
  /\ [][/\ proc' = "connected" => proc \in {"starting", "connected"}
        /\ (proc = "connected" /\ proc' # "connected") =>
             /\ proc' = "exited"
             /\ exit' = <<0>>
             /\ stderr' = <<"connected", "disconnected">>
             /\ \A i \in Invs : pc'[i] = "idle" /\ result'[i] = NoResult
        /\ proc = "exited" => UNCHANGED vars]_vars

\* interrupted after connecting
C18_Witness ==
  /\ proc = "exited"
  /\ exit = <<0>>
  /\ stderr = <<"connected", "disconnected">>

\* C17: of calls that overlap, each keeps the records and the error flag
\* of its own pages only, follows its own cursor, and returns the result
\* that its own arguments and pages determine.
C17_OverlappingCallsIsolated ==
  \A i \in Invs :
     /\ allMeetings[i] = received[i]
     /\ hadError[i] = failed[i]
     /\ lastResponse[i].t = "response" => cursor[i] = lastResponse[i].nextCursor
     /\ pc[i] = "listing" => inflight[i] = <<ListRequest(cursor[i])>>
     /\ pc[i] = "done" =>
          result[i] =
            SearchResult(FormatMeetings(FilterMeetings(received[i], args[i], tz), tz),
                         failed[i])

\* two calls whose pages alternated: one returned two records without
\* error, the other one record with the error flag
C17_Witness ==
  \E i, j \in Invs :
     /\ i # j
     /\ pc[i] = "done" /\ pc[j] = "done"
     /\ RecordingIds(result[i].meetings) = <<1, 2>> /\ ~result[i].isError
     /\ RecordingIds(result[j].meetings) = <<2>> /\ result[j].isError

====
